---- MODULE Spec2Model ----
(***************************************************************************)
(* A model of the memory pool (src/src/memory_pool.rs) and of its smart    *)
(* pointer (src/src/arc_recycled.rs).                                      *)
(*                                                                         *)
(* The pool lives on one thread: MemoryPool holds an mpsc::Receiver and a  *)
(* Box<Fn() -> T>, so it is neither Sync nor Send and get/try_get run one  *)
(* at a time.  The handles (ArcRecycled) are Send: each of them may be     *)
(* cloned, used and dropped by its own thread, so the steps of a drop      *)
(* interleave with the steps of other drops and with the steps of get.     *)
(* One action is one atomic step: a channel operation, an atomic           *)
(* operation on the pool's counter or on the Arc's strong count, together  *)
(* with the thread-local code around it.                                   *)
(***************************************************************************)
EXTENDS Integers, Sequences, FiniteSets, TLC

\* ---- bounds of the model ----
\* the largest `max` a pool is created with
MaxMax == 1
\* the number of ArcRecycled values that exist at the same time
MaxHandles == 2
\* how far above `max` the counter may be before no further call is explored
MaxOver == 2
\* the capacity the creator closure gives a Vec (Vec::with_capacity)
FactoryCap == 1
\* the counter is a usize; the model's usize has UsizeBits bits
UsizeBits == 4

\* ---- derived sets ----
Modulus == 2 ^ UsizeBits
\* one more object than any pool may create, so that one too many is visible
MaxObjs == MaxMax + 1
Objs == 1 .. MaxObjs
Handles == 1 .. MaxHandles
\* Option::None, as a message of the channel and as a handle's content
NoObj == 0
\* no call returned in the last step
NoRet == [op |-> "none"]

VARIABLES
    phase,       \* "new" (before create_with), "alive", "faulted" (the assert failed), "dropped"
    initSize,    \* create_with's argument `size`
    max,         \* create_with's argument `max`, then MemoryPool.max
    size,        \* MemoryPool.size, the AtomicUsize
    chan,        \* the messages in the mpsc channel: objects, or NoObj for None
    senders,     \* the number of live mpsc::Sender clones of the channel
    created,     \* the number of calls of the creator closure
    data,        \* data[o]: the Vec that is object o, [len, cap]
    strong,      \* strong[o]: the strong count of the Arc around object o (0: no Arc)
    freed,       \* the objects that were deallocated
    usedInChan,  \* the objects in the channel that were not empty when drop recycled them
    hpc,         \* hpc[h]: "free" (no such handle), "live", or in drop: "unwrapped", "shared"
    content,     \* content[h]: ArcRecycled.content, an object or NoObj
    value,       \* value[h]: the local `value` / `mem_slot` / `arc` of drop
    ppc,         \* the pool thread: "idle", "loop" (inside the loop), "grow" (channel seen empty)
    op,          \* the call in progress: "none", "get", "try_get"
    anyDrop,     \* whether the drop of some handle has begun
    heldAtPoll,  \* while ppc = "grow": how many objects handles referenced when the channel was seen empty
    ret          \* what the call that returned in the last step returned, or NoRet

vars == <<phase, initSize, max, size, chan, senders, created, data, strong, freed, usedInChan,
          hpc, content, value, ppc, op, anyDrop, heldAtPoll, ret>>

poolVars == <<phase, initSize, max, size, created, ppc, op, heldAtPoll>>
handleVars == <<hpc, content, value, anyDrop>>

\* ---- helpers ----
\* usize arithmetic wraps (fetch_add and fetch_sub on an AtomicUsize)
Wrap(n) == n % Modulus

\* what the creator closure of the tests returns: Vec::with_capacity(c)
Fresh == [len |-> 0, cap |-> FactoryCap]

\* the objects in the channel
InChan == {chan[i] : i \in 1 .. Len(chan)} \ {NoObj}

\* the handles that hold a reference to object o, in their content or in drop's local
Holders(o) == {h \in Handles : hpc[h] # "free" /\ (content[h] = o \/ value[h] = o)}

\* the objects some handle references
Held == {o \in Objs : Holders(o) # {}}

FreeHandles == {h \in Handles : hpc[h] = "free"}

\* the slot a new handle takes
NewHandle == CHOOSE h \in FreeHandles : \A g \in FreeHandles : h <= g

Init ==
    /\ phase = "new"
    /\ initSize \in 0 .. MaxObjs
    /\ max \in 0 .. MaxMax
    /\ size = 0
    /\ chan = <<>>
    /\ senders = 0
    /\ created = 0
    /\ data = [o \in Objs |-> Fresh]
    /\ strong = [o \in Objs |-> 0]
    /\ freed = {}
    /\ usedInChan = {}
    /\ hpc = [h \in Handles |-> "free"]
    /\ content = [h \in Handles |-> NoObj]
    /\ value = [h \in Handles |-> NoObj]
    /\ ppc = "idle"
    /\ op = "none"
    /\ anyDrop = FALSE
    /\ heldAtPoll = 0
    /\ ret = NoRet

\* a pool that keeps no Sender of its channel
PoolSendersNone == Cardinality({})

\* the Senders the pool itself holds: its field `sender: tx`
PoolSenders == 1

\* a create_with that stores `max` where it should store `size`
CreateWithSizeMax ==
    /\ phase = "new"
    /\ IF initSize <= max
       THEN /\ phase' = "alive"
            /\ chan' = [i \in 1 .. initSize |-> i]
            /\ created' = initSize
            /\ size' = max
            /\ senders' = PoolSenders
       ELSE /\ phase' = "faulted"
            /\ UNCHANGED <<chan, created, size, senders>>
    /\ ret' = NoRet
    /\ UNCHANGED <<initSize, max, data, strong, freed, usedInChan, hpc, content, value,
                   ppc, op, anyDrop, heldAtPoll>>

\* ---- MemoryPool::create_with ----
CreateWith ==
    /\ phase = "new"
    /\ IF initSize <= max
       THEN /\ phase' = "alive"
            /\ chan' = [i \in 1 .. initSize |-> i]
            /\ created' = initSize
            /\ size' = initSize
            /\ senders' = PoolSenders
       ELSE /\ phase' = "faulted"
            /\ UNCHANGED <<chan, created, size, senders>>
    /\ ret' = NoRet
    /\ UNCHANGED <<initSize, max, data, strong, freed, usedInChan, hpc, content, value,
                   ppc, op, anyDrop, heldAtPoll>>

\* ---- ArcRecycled::new(data, self.sender.clone()) ----
\* the new handle h wraps object o in a new Arc and owns a clone of the sender
ArcRecycledNew(h, o) ==
    /\ hpc' = [hpc EXCEPT ![h] = "live"]
    /\ content' = [content EXCEPT ![h] = o]
    /\ strong' = [strong EXCEPT ![o] = 1]
    /\ senders' = senders + 1
    /\ UNCHANGED <<value, anyDrop>>

\* a try_get that kept the panic of get
ExhaustedPanics(f) == "panic"

\* the value of a call that fails at the limit: get panics, try_get returns None
Exhausted(f) == IF f = "get" THEN "panic" ELSE "nothing"

\* the comparison off by one
HasRoomLeq(old) == old <= max

\* `self.size.fetch_add(1, Ordering::Relaxed) < self.max`, on the value fetch_add returns
HasRoom(old) == old < max

\* a load where the fetch_add should be
FetchAddNone(n) == n

\* the counter after `self.size.fetch_add(1, Ordering::Relaxed)`
FetchAdd(n) == Wrap(n + 1)

\* an Err(Empty) arm that polls again until an object comes back
AfterEmptyRetry == "loop"

\* where the Err(Empty) arm goes: on to the fetch_add, with no second poll
AfterEmpty == "grow"

\* the calls the model explores: a call starts only while size < max + MaxOver, which
\* bounds the number of failed calls, each of which raises the counter, and keeps the
\* counter far from Modulus
CallCap == ppc = "idle" => size < max + MaxOver

\* what get or try_get returns: out is "handle", "panic", "nothing" or "unreachable";
\* h the new handle (0: none); made: the creator was called; empty: the channel was seen
\* empty; held: the number of objects handles referenced when the channel was polled;
\* used: the object handed out had been written to before its last return
Returns(f, out, h, mk, em, hd) ==
    [op |-> f, out |-> out, h |-> h, made |-> mk, empty |-> em, held |-> hd,
     used |-> h # 0 /\ ~mk /\ Head(chan) \in usedInChan]

\* ---- MemoryPool::get and try_get: one turn of the loop, `self.receiver.try_recv()` ----
\* A call starts when the model has a free slot for the handle it may create.
Recv(f) ==
    /\ phase = "alive"
    /\ \/ ppc = "idle" /\ FreeHandles # {}
       \/ ppc = "loop" /\ op = f
    /\ IF chan # <<>>
       THEN /\ chan' = Tail(chan)
            /\ usedInChan' = usedInChan \ {Head(chan)}
            /\ IF Head(chan) # NoObj
               THEN \* Ok(Some(mem_slot)): wrap and return it
                    /\ FreeHandles # {}
                    /\ ArcRecycledNew(NewHandle, Head(chan))
                    /\ ppc' = "idle"
                    /\ op' = "none"
                    /\ ret' = Returns(f, "handle", NewHandle, FALSE, FALSE, Cardinality(Held))
                    /\ UNCHANGED <<size, heldAtPoll>>
               ELSE \* Ok(None): keep trying
                    /\ size' = Wrap(size - 1)
                    /\ ppc' = "loop"
                    /\ op' = f
                    /\ ret' = NoRet
                    /\ UNCHANGED <<hpc, content, strong, senders, value, anyDrop, heldAtPoll>>
       ELSE /\ UNCHANGED <<chan, usedInChan, hpc, content, strong, senders, value, anyDrop, size>>
            /\ IF senders = 0
               THEN \* Err(Disconnected): unreachable!()
                    /\ ppc' = "idle"
                    /\ op' = "none"
                    /\ ret' = Returns(f, "unreachable", 0, FALSE, TRUE, Cardinality(Held))
                    /\ UNCHANGED heldAtPoll
               ELSE \* Err(Empty): go on to the fetch_add
                    /\ ppc' = AfterEmpty
                    /\ op' = f
                    /\ heldAtPoll' = Cardinality(Held)
                    /\ ret' = NoRet
    /\ UNCHANGED <<phase, initSize, max, created, data, freed>>

\* ---- the Err(Empty) arm: fetch_add, then the creator or the failure ----
\* (the creator is called at most MaxObjs times in the model, one more than any `max`)
Grow(f) ==
    /\ phase = "alive"
    /\ ppc = "grow"
    /\ op = f
    /\ size' = FetchAdd(size)
    /\ ppc' = "idle"
    /\ op' = "none"
    /\ heldAtPoll' = 0
    /\ IF HasRoom(size)
       THEN /\ created < MaxObjs
            /\ FreeHandles # {}
            /\ created' = created + 1
            /\ data' = [data EXCEPT ![created + 1] = Fresh]
            /\ ArcRecycledNew(NewHandle, created + 1)
            /\ ret' = Returns(f, "handle", NewHandle, TRUE, TRUE, heldAtPoll)
       ELSE /\ ret' = Returns(f, Exhausted(f), 0, FALSE, TRUE, heldAtPoll)
            /\ UNCHANGED <<created, data, hpc, content, strong, senders, value, anyDrop>>
    /\ UNCHANGED <<phase, initSize, max, chan, freed, usedInChan>>

GetRecv == CallCap /\ Recv("get")
GetGrow == Grow("get")
TryGetRecv == CallCap /\ Recv("try_get")
TryGetGrow == Grow("try_get")

\* a clone that starts empty
CloneContentNone(h) == NoObj

\* `content: self.content.clone()`
CloneContent(h) == content[h]

\* ---- impl Clone for ArcRecycled: Arc::clone and Sender::clone ----
\* (a call of get or try_get in progress keeps the slot it started with)
Clone(h) ==
    /\ hpc[h] = "live"
    /\ content[h] # NoObj
    /\ FreeHandles # {}
    /\ ppc # "idle" => Cardinality(FreeHandles) > 1
    /\ hpc' = [hpc EXCEPT ![NewHandle] = "live"]
    /\ content' = [content EXCEPT ![NewHandle] = CloneContent(h)]
    /\ strong' = [strong EXCEPT ![content[h]] = @ + 1]
    /\ senders' = senders + 1
    /\ ret' = NoRet
    /\ UNCHANGED <<poolVars, chan, data, freed, usedInChan, value, anyDrop>>

\* a get_mut that does not look at the other clones
ArcGetMutAlways(o) == strong[o] >= 1

\* Arc::get_mut(arc): Some(&mut T) when the Arc is the only reference to its object
ArcGetMut(o) == strong[o] = 1

\* ---- ArcRecycled::get_mut, and the caller's use of the reference ----
\* write: whether the caller pushes an element through the reference it gets
GetMut(h, write) ==
    /\ hpc[h] = "live"
    /\ content[h] # NoObj
    /\ ret' = [op |-> "get_mut", h |-> h, ok |-> ArcGetMut(content[h]),
                sole |-> Holders(content[h]) = {h}]
    /\ IF ArcGetMut(content[h]) /\ write /\ data[content[h]].len < data[content[h]].cap
       THEN data' = [data EXCEPT ![content[h]].len = @ + 1]
       ELSE UNCHANGED data
    /\ UNCHANGED <<poolVars, chan, senders, strong, freed, usedInChan, handleVars>>

\* a deref_mut that hands out the reference whoever else holds the object
DerefMutUnchecked(h) ==
    /\ hpc[h] = "live"
    /\ content[h] # NoObj
    /\ ret' = [op |-> "deref_mut", h |-> h, ok |-> TRUE]
    /\ IF data[content[h]].len < data[content[h]].cap
       THEN data' = [data EXCEPT ![content[h]].len = @ + 1]
       ELSE UNCHANGED data
    /\ UNCHANGED <<poolVars, chan, senders, strong, freed, usedInChan, handleVars>>

\* ---- impl DerefMut for ArcRecycled: Arc::get_mut(arc).expect(..), then the push of ----
\* the tests through the reference (while the Vec has room); ok = FALSE is the panic
DerefMut(h) ==
    /\ hpc[h] = "live"
    /\ content[h] # NoObj
    /\ ret' = [op |-> "deref_mut", h |-> h, ok |-> ArcGetMut(content[h])]
    /\ IF ArcGetMut(content[h]) /\ data[content[h]].len < data[content[h]].cap
       THEN data' = [data EXCEPT ![content[h]].len = @ + 1]
       ELSE UNCHANGED data
    /\ UNCHANGED <<poolVars, chan, senders, strong, freed, usedInChan, handleVars>>

\* impl Recycle for Vec: self.clear()
Recycle(v) == [v EXCEPT !.len = 0]

\* the end of a handle: its fields are dropped, the Sender among them
HandleGone(h) ==
    /\ anyDrop' = TRUE
    /\ hpc' = [hpc EXCEPT ![h] = "free"]
    /\ content' = [content EXCEPT ![h] = NoObj]
    /\ value' = [value EXCEPT ![h] = NoObj]
    /\ senders' = senders - 1

\* the Result of owner.send: Err once the Receiver is gone
SendResult == IF phase = "alive" THEN "ok" ELSE "err"

\* a drop that unwraps the Result of send
UnwrapSend(res) == res = "err"

\* `let _ = self.owner.send(..)`: whether drop panics on the Result (it ignores it)
IgnoreSend(res) == FALSE

\* what the end of a drop leaves: last, whether try_unwrap gave the object (the Ok arm);
\* sent, whether the object went into the channel; fault, whether drop panicked
Dropped(h, last, sent, fault) ==
    [op |-> "drop", h |-> h, last |-> last, sent |-> sent, fault |-> fault]

\* owner.send(msg): queued while the receiver lives; Err, and msg dropped, once it is gone
Send(msg) ==
    IF phase = "alive"
    THEN /\ chan' = Append(chan, msg)
         /\ UNCHANGED freed
    ELSE /\ freed' = freed \cup ({msg} \ {NoObj})
         /\ UNCHANGED chan

\* a drop that takes the object out of the Arc whoever else references it
TryUnwrapAny(o) == strong[o] >= 1

\* Arc::try_unwrap(value) is Ok when the compare-exchange 1 -> 0 of the strong count succeeds
TryUnwrapOk(o) == strong[o] = 1

\* ---- impl Drop for ArcRecycled: `self.content.take()` and `Arc::try_unwrap(value)` ----
\* take() touches the handle alone, so it is one step with the compare-exchange (1 -> 0)
\* of the strong count that try_unwrap is
DropTryUnwrap(h) ==
    /\ hpc[h] = "live"
    /\ IF content[h] # NoObj
       THEN \* Some(value)
            /\ value' = [value EXCEPT ![h] = content[h]]
            /\ content' = [content EXCEPT ![h] = NoObj]
            /\ anyDrop' = TRUE
            /\ IF TryUnwrapOk(content[h])
               THEN \* Ok(mem_slot)
                    /\ strong' = [strong EXCEPT ![content[h]] = 0]
                    /\ hpc' = [hpc EXCEPT ![h] = "unwrapped"]
               ELSE \* Err(arc)
                    /\ hpc' = [hpc EXCEPT ![h] = "shared"]
                    /\ UNCHANGED strong
            /\ UNCHANGED <<chan, freed, senders>>
       ELSE \* None: an empty shell, send(None)
            /\ Send(NoObj)
            /\ HandleGone(h)
            /\ UNCHANGED strong
    /\ ret' = NoRet
    /\ UNCHANGED <<poolVars, data, usedInChan>>

\* a drop that forgets to recycle
ReturnedAsIs(v) == v

\* the object as drop sends it: `mem_slot.recycle()`
Returned(v) == Recycle(v)

\* ---- drop, the Ok(mem_slot) arm: recycle, send, then the handle is gone ----
DropSend(h) ==
    /\ hpc[h] = "unwrapped"
    /\ data' = [data EXCEPT ![value[h]] = Returned(@)]
    /\ Send(value[h])
    /\ usedInChan' = IF phase = "alive" /\ data[value[h]].len > 0
                     THEN usedInChan \cup {value[h]}
                     ELSE usedInChan
    /\ HandleGone(h)
    /\ ret' = Dropped(h, TRUE, phase = "alive", IgnoreSend(SendResult))
    /\ UNCHANGED <<poolVars, strong>>

\* an Err(arc) arm that returns the object like the Ok arm
DropReleaseSends(h) ==
    /\ hpc[h] = "shared"
    /\ strong' = [strong EXCEPT ![value[h]] = @ - 1]
    /\ data' = [data EXCEPT ![value[h]] = Recycle(@)]
    /\ Send(value[h])
    /\ HandleGone(h)
    /\ ret' = Dropped(h, FALSE, phase = "alive", FALSE)
    /\ UNCHANGED <<poolVars, usedInChan>>

\* ---- drop, the Err(arc) arm: `self.content = Some(arc)`; drop returns and the field ----
\* `content` is dropped, that is Arc::drop: fetch_sub(1) on the strong count, and the
\* thread that takes it to 0 deallocates the object
DropRelease(h) ==
    /\ hpc[h] = "shared"
    /\ strong' = [strong EXCEPT ![value[h]] = @ - 1]
    /\ freed' = IF strong[value[h]] = 1 THEN freed \cup {value[h]} ELSE freed
    /\ HandleGone(h)
    /\ ret' = Dropped(h, FALSE, FALSE, FALSE)
    /\ UNCHANGED <<poolVars, chan, data, usedInChan>>

\* ---- the pool is dropped: the Receiver (with the queued objects) and the pool's Sender go ----
DropPool ==
    /\ phase = "alive"
    /\ ppc = "idle"
    /\ phase' = "dropped"
    /\ freed' = freed \cup InChan
    /\ chan' = <<>>
    /\ usedInChan' = {}
    /\ senders' = senders - PoolSenders
    /\ UNCHANGED <<initSize, max, size, created, ppc, op, heldAtPoll,
                   data, strong, handleVars>>
    /\ ret' = NoRet

Next ==
    \/ CreateWith
    \/ GetRecv
    \/ GetGrow
    \/ TryGetRecv
    \/ TryGetGrow
    \/ \E h \in Handles : Clone(h)
    \/ \E h \in Handles, write \in BOOLEAN : GetMut(h, write)
    \/ \E h \in Handles : DerefMut(h)
    \/ \E h \in Handles : DropTryUnwrap(h)
    \/ \E h \in Handles : DropSend(h)
    \/ \E h \in Handles : DropRelease(h)
    \/ DropPool

Spec == Init /\ [][Next]_vars

\* ---- the same pool with no bound on the calls: the counter goes all the way round ----
GetRecvAny == Recv("get")
TryGetRecvAny == Recv("try_get")

NextWrap ==
    \/ CreateWith
    \/ GetRecvAny
    \/ GetGrow
    \/ TryGetRecvAny
    \/ TryGetGrow
    \/ \E h \in Handles : Clone(h)
    \/ \E h \in Handles, write \in BOOLEAN : GetMut(h, write)
    \/ \E h \in Handles : DerefMut(h)
    \/ \E h \in Handles : DropTryUnwrap(h)
    \/ \E h \in Handles : DropSend(h)
    \/ \E h \in Handles : DropRelease(h)
    \/ DropPool

SpecWrap == Init /\ [][NextWrap]_vars

\* a step of the call of get or try_get that is in progress
CallStep == ppc # "idle" /\ (GetRecv \/ GetGrow \/ TryGetRecv \/ TryGetGrow)

\* the thread that called get or try_get keeps running: it is never suspended for ever
\* while its next step is possible.  Nothing is assumed of the threads that hold handles.
FairSpec == Spec /\ WF_vars(CallStep)
(***************************************************************************)
(* The properties.                                                         *)
(***************************************************************************)
\* the pool was constructed (it may have been dropped since)
Constructed == phase \in {"alive", "dropped"}

\* the last step returned from get or try_get
Acquired == ret.op \in {"get", "try_get"}

\* no get, try_get or drop is in progress
Quiescent == ppc = "idle" /\ \A h \in Handles : hpc[h] \in {"free", "live"}

\* how often object o is in the channel
TimesInChan(o) == Cardinality({i \in 1 .. Len(chan) : chan[i] = o})

C2_LastDropReturns ==
    phase = "alive" =>
        \A o \in 1 .. created : \/ TimesInChan(o) = 1 /\ Holders(o) = {}
                                \/ TimesInChan(o) = 0 /\ Holders(o) # {}

\* C3 (as claimed): the counter never exceeds `max`.
C3_SizeAtMostMax == Constructed => size <= max

\* C4 (as claimed): when no call and no drop is in progress the counter is the number of
\* objects in the channel or referenced by a handle.
C4_SizeCountsObjects ==
    (phase = "alive" /\ Quiescent) => size = Cardinality(InChan \cup Held)

\* C5 (as claimed): a call of get or try_get fails only when `max` objects were checked
\* out when it polled the channel: with fewer checked out, get does not panic and
\* try_get does not return None.
C5_NoFaultBelowMax ==
    (Acquired /\ ret.out \in {"panic", "nothing"}) => ret.held >= max

\* C6: an object in the channel is referenced by no handle and is in the channel once,
\* and an object that get or try_get hands out was referenced by no handle before.
C6_InChanUnreferenced ==
    \A o \in Objs : /\ TimesInChan(o) <= 1
                    /\ o \in InChan => Holders(o) = {} /\ strong[o] = 0

C6_HandOut ==
    (Acquired' /\ ret'.out = "handle") =>
        /\ Holders(content'[ret'.h]) = {}
        /\ content'[ret'.h] \notin InChan'

C6_Exclusive == []C6_InChanUnreferenced /\ [][C6_HandOut]_vars

\* C6 witness: a call handed out an object that an earlier call had created and a drop had
\* sent back through the channel, and the new handle is the only one that references it.
C6_Witness ==
    /\ Acquired
    /\ ret.out = "handle"
    /\ ~ret.made
    /\ initSize = 0
    /\ Holders(content[ret.h]) = {ret.h}

\* C7: get_mut returns Some exactly when the handle is the only one that references its
\* object.
C7_GetMutIffSole == ret.op = "get_mut" => (ret.ok <=> ret.sole)

\* C7 witness: get_mut succeeds on a clone (the handle in slot 2 of a pool that has made
\* one object was created while slot 1 referenced that object) after the other clone went.
C7_Witness ==
    /\ ret.op = "get_mut"
    /\ ret.ok
    /\ ret.h = 2
    /\ created = 1
    /\ hpc[1] = "free"

\* C8: a call that polled the channel empty while `max` objects were checked out fails,
\* get with a panic and try_get with None; it creates no handle and calls no creator.
C8_Step ==
    (ppc = "grow" /\ ppc' = "idle" /\ heldAtPoll = max) =>
        /\ ret'.out = (IF op = "get" THEN "panic" ELSE "nothing")
        /\ ret'.h = 0
        /\ created' = created
        /\ hpc' = hpc
        /\ content' = content
        /\ chan' = chan

C9_HandedOutFresh ==
    (Acquired /\ ret.out = "handle") => data[content[ret.h]] = Fresh

\* C9 witness: a call handed out an object that had been written to and then returned.
C9_Witness ==
    /\ Acquired
    /\ ret.out = "handle"
    /\ ret.used
    /\ data[content[ret.h]] = Fresh

\* C10: create_with(size, max) with size <= max leaves `size` distinct fresh objects in
\* the channel and the counter at `size`; with size > max it panics, no object is created
\* and there is no pool.
C10_Step ==
    (phase = "new" /\ phase' # "new") =>
        IF initSize <= max
        THEN /\ phase' = "alive"
             /\ Len(chan') = initSize
             /\ Cardinality(InChan') = initSize
             /\ \A o \in InChan' : data'[o] = Fresh
             /\ size' = initSize
             /\ created' = initSize
        ELSE /\ phase' = "faulted"
             /\ created' = 0
             /\ chan' = <<>>
             /\ size' = 0

C10_Construction == [][C10_Step]_vars

\* C10 witness: a pool right after a construction with 0 < size <= max.
C10_Witness ==
    /\ phase = "alive"
    /\ initSize > 0
    /\ Len(chan) = initSize
    /\ size = initSize
    /\ created = initSize
    /\ FreeHandles = Handles

\* the object handle h references, in its content or in the local of its drop
ObjOf(h) == IF content[h] # NoObj THEN content[h] ELSE value[h]

\* C11: a step of the drop of a handle, while another handle references the same object,
\* sends nothing to the channel, does not reset or deallocate the object and leaves the
\* counter as it is: the other clone reads the content it read before.
C11_Step ==
    \A h \in Handles :
        (/\ hpc[h] # "free"
         /\ hpc'[h] # hpc[h]
         /\ Holders(ObjOf(h)) \ {h} # {})
        => /\ chan' = chan
           /\ data' = data
           /\ freed' = freed
           /\ size' = size

C11_SharedDropReturnsNothing == [][C11_Step]_vars

\* C11 witness: a drop ended without a send, and a live handle is now the only reference
\* to the one object of the pool, which still holds what was written to it.
C11_Witness ==
    /\ ret.op = "drop"
    /\ ~ret.last
    /\ ~ret.sent
    /\ created = 1
    /\ chan = <<>>
    /\ \E g \in Handles : /\ hpc[g] = "live"
                          /\ content[g] = 1
                          /\ strong[1] = 1
                          /\ data[1].len > 0

\* C12: after the pool is dropped, the drop of the last handle of an object ends without
\* a panic: the send fails, the object is deallocated, and nothing else changes (the
\* counter, the channel, the other handles and the other objects stay as they are).
C12_Step ==
    \A h \in Handles :
        (phase = "dropped" /\ hpc[h] = "unwrapped" /\ hpc'[h] = "free")
        => /\ ret' = Dropped(h, TRUE, FALSE, FALSE)
           /\ freed' = freed \cup {value[h]}
           /\ chan' = chan
           /\ <<phase', size', created', ppc', strong'>> = <<phase, size, created, ppc, strong>>
           /\ \A g \in Handles \ {h} :
                  <<hpc'[g], content'[g], value'[g]>> = <<hpc[g], content[g], value[g]>>
           /\ \A o \in Objs \ {value[h]} : data'[o] = data[o]

C12_OrphanDropIsSilent == [](ret.op = "drop" => ~ret.fault) /\ [][C12_Step]_vars

\* C12 witness: the last handle of an object was dropped after the pool; its send failed
\* and the object, created by a call of the pool, is deallocated.
C12_Witness ==
    /\ phase = "dropped"
    /\ ret.op = "drop"
    /\ ret.last
    /\ ~ret.sent
    /\ ~ret.fault
    /\ initSize = 0
    /\ created = 1
    /\ freed = {1}
    /\ chan = <<>>

\* C13: deref_mut panics exactly when another handle references the same object; on the
\* only handle it gives the reference, through which that object alone is written, and a
\* deref_mut that panics changes no object.
C13_Step ==
    ret'.op = "deref_mut" =>
        /\ ret'.ok <=> Holders(content[ret'.h]) = {ret'.h}
        /\ ~ret'.ok => data' = data
        /\ \A o \in Objs \ {content[ret'.h]} : data'[o] = data[o]
        /\ <<chan', strong', hpc', content'>> = <<chan, strong, hpc, content>>

C13_DerefMutExclusive == [][C13_Step]_vars

\* C13 witness: deref_mut panicked on a handle whose object a second live handle
\* references, and the object is as the creator made it.
C13_Witness ==
    /\ ret.op = "deref_mut"
    /\ ~ret.ok
    /\ \E g \in Handles \ {ret.h} : hpc[g] = "live" /\ content[g] = content[ret.h]
    /\ data[content[ret.h]] = Fresh

\* a step of get or try_get
PoolStep == ret'.op \in {"get", "try_get"} \/ ppc' # ppc

\* C14: after create_with the creator is called only by a call that saw the channel empty;
\* a call that finds an object in the channel returns that object and leaves the counter
\* and the number of creator calls as they are; a growth that succeeds adds one to the
\* counter and calls the creator once.  Hence, as long as no handle was dropped, the
\* creator was called max(0, k - initSize) times after create_with, k being the number of
\* objects handed out.
C14_Step ==
    /\ (phase # "new" /\ created' # created) => ppc = "grow"
    /\ (PoolStep /\ ppc # "grow" /\ chan # <<>> /\ Head(chan) # NoObj)
       => /\ ret'.op \in {"get", "try_get"}
          /\ ret'.out = "handle"
          /\ content'[ret'.h] = Head(chan)
          /\ size' = size
          /\ created' = created
    /\ (ppc = "grow" /\ ppc' = "idle" /\ ret'.out = "handle")
       => /\ size' = size + 1
          /\ created' = created + 1
          /\ content'[ret'.h] = created + 1
    /\ (ppc = "grow" /\ ppc' = "idle" /\ ret'.out # "handle") => created' = created

C14_Sequential ==
    (Constructed /\ ~anyDrop) =>
        created - initSize = (IF Cardinality(Held) > initSize
                              THEN Cardinality(Held) - initSize
                              ELSE 0)

C14_LazyCreation == []C14_Sequential /\ [][C14_Step]_vars

\* C14 witness: no handle was dropped yet and a call that saw the channel empty created
\* the object it returned, the first one beyond those of create_with.
C14_Witness ==
    /\ ~anyDrop
    /\ Acquired
    /\ ret.made
    /\ ret.empty
    /\ created = initSize + 1
    /\ size = created

\* C15: a call of get or try_get that is in progress can always take its next step,
\* whatever the threads that clone and drop handles do or fail to do, and it returns.
C15_Terminates ==
    /\ [](ppc # "idle" => ENABLED <<CallStep>>_vars)
    /\ (ppc # "idle") ~> (ppc = "idle")

\* C15 witness: a call returned the failure at the limit while the drop of a handle was
\* in progress on another thread: it did not wait for the object to come back.
C15_Witness ==
    /\ Acquired
    /\ ret.out \in {"panic", "nothing"}
    /\ \E h \in Handles : hpc[h] = "unwrapped"

\* C16: a handle that is not in its drop holds its content, so no drop sends the None
\* marker: no None is in the channel, no call is in the arm that decrements, and the
\* counter never decreases.
C16_ContentKept ==
    /\ \A h \in Handles : hpc[h] = "live" => content[h] # NoObj
    /\ \A i \in 1 .. Len(chan) : chan[i] # NoObj
    /\ ppc # "loop"

C17_NoGrowthAfterWrap ==
    /\ (Acquired /\ ret.made) => ret.held < max
    /\ Constructed => created <= max

\* C18: while the pool exists the channel has a Sender, the pool's own, whatever the
\* handles do; so no poll of get or try_get sees Err(Disconnected) and no call ends in
\* unreachable!().
C18_NeverDisconnected ==
    /\ phase = "alive" => senders >= PoolSenders /\ senders >= 1
    /\ ret.op \in {"get", "try_get"} => ret.out # "unreachable"

\* a poll found the channel empty when every handle, and with it every other Sender,
\* was gone: only the pool's own Sender kept the channel connected
C18_Witness ==
    /\ phase = "alive"
    /\ anyDrop
    /\ ppc = "grow"
    /\ FreeHandles = Handles
    /\ senders = 1
====
